---- MODULE Spec2Model ----
(***************************************************************************)
(* The Auth component of src/src/auth-ui.js (the TypeScript twin is        *)
(* src/unnamed/part_000) as a state machine.                               *)
(*                                                                         *)
(* React's execution model is made explicit:                               *)
(*   - the hook state (view, session, isLoading, ...) holds the value the  *)
(*     next render will see; a setX(v) call is an assignment to it;        *)
(*   - `rendered` is the snapshot of the last render: what the user sees   *)
(*     and what every closure created by that render (event handlers,      *)
(*     effects) reads;                                                     *)
(*   - Mount runs every effect once, in declaration order; Render          *)
(*     re-renders and runs, in declaration order, the effects whose        *)
(*     dependency changed since the last render;                           *)
(*   - updates are batched per task: an event is taken only when the last  *)
(*     render is up to date, and the renders it causes run to completion.  *)
(* The router is the host's: router.push / router.replace are asynchronous *)
(* and complete later (navQ); the path can also change from outside.       *)
(* The auth client is the host's: its promises resolve later with any      *)
(* outcome (a result without error, a result with error, a rejection).     *)
(***************************************************************************)
EXTENDS Naturals, Sequences, FiniteSets, TLC

\* Bounds of the model.
MaxNav == 2        \* router navigations pending at once
MaxInFlight == 2   \* backend submit calls pending at once

NULL == "null"

Views == {"login", "signup", "forgot-password", "update-password"}

\* Sessions the auth client can deliver (NULL: no session).
Sessions == {"s1", "s2"}

\* Text typed into the email and password inputs, as sequences of characters.
EmptyText == <<>>
Emails == {EmptyText, <<"a">>, <<"a", "@", "b">>}
Passwords == {EmptyText, <<"p">>}

\* The AuthError object a backend call can return.
AuthError == "AuthError"

\* Paths the router can be on.
Paths == {"/login", "/signup", "/forgot-password", "/update-password", "/", "/r", "/q",
          "/d"}

\* path.split("/"): "/login" gives ["", "login"], "/" gives ["", ""].
Split(path) ==
    CASE path = "/login" -> <<"", "login">>
      [] path = "/signup" -> <<"", "signup">>
      [] path = "/forgot-password" -> <<"", "forgot-password">>
      [] path = "/update-password" -> <<"", "update-password">>
      [] path = "/" -> <<"", "">>
      [] path = "/r" -> <<"", "r">>
      [] path = "/q" -> <<"", "q">>
      [] path = "/d" -> <<"", "d">>

\* router.pathname.split("/")[1] (TLA+ sequences count from 1).
Segment(path) == Split(path)[2]

\* value?.includes("@")
Includes(text, ch) == \E i \in DOMAIN text : text[i] = ch

VARIABLES
    cfg,             \* the component's props and the router's query (fixed at mount)
    pathname,        \* router.pathname
    navQ,            \* paths of the router.push / router.replace calls still pending
    view, session, isLoading, error, successMessage, isMagicLink,
    email, password, isVisible,   \* the useState hooks
    rendered,        \* snapshot of the last render
    phase,           \* "mount": first render done, effects pending; "run"
    getSession,      \* the getSession() promise: "idle", "pending", "resolved"
    mountView,       \* the view captured by the closure of the mount effect
    subscribed,      \* the onAuthStateChange subscription is active
    inflight,        \* how many calls of each backend method are pending
    out              \* router / backend calls and field errors of the last step

hooks == <<view, session, isLoading, error, successMessage, isMagicLink,
           email, password, isVisible>>
vars == <<cfg, pathname, navQ, view, session, isLoading, error, successMessage,
          isMagicLink, email, password, isVisible, rendered, phase, getSession,
          mountView, subscribed, inflight, out>>

----
\* Props.

\* The identifiers the documentation of the `providers` prop allows.
DocumentedProviders ==
    {"apple", "azure", "bitbucket", "discord", "facebook", "figma", "github",
     "gitlab", "google", "kakao", "keycloak", "linkedin", "notion", "twitch",
     "twitter", "slack", "spotify", "workos", "zoom"}

\* The table of known providers (the icons are left out).
authProviders ==
    [p \in {"apple", "discord", "facebook", "google", "github", "email", "password"} |->
        CASE p = "apple" -> [name |-> "Apple"]
          [] p = "discord" -> [name |-> "Discord"]
          [] p = "facebook" -> [name |-> "Facebook"]
          [] p = "google" -> [name |-> "Google"]
          [] p = "github" -> [name |-> "GitHub"]
          [] p = "email" -> [name |-> "Email"]
          [] p = "password" -> [name |-> "Password"]]

\* Values of the `providers` prop (default: none).
ProviderLists == {<<>>, <<"google">>, <<"azure">>, <<"github", "azure">>}

Configs ==
    [isRoutingEnabled : BOOLEAN, magicLink : BOOLEAN, emailPassword : BOOLEAN,
     startWithMagicLink : BOOLEAN, initialView : Views,
     redirectTo : {NULL, "/r"}, redirect_to : {NULL, "/q"},
     defaultRedirectTo : {"/", "/d"}, baseUrl : {""}, providers : ProviderLists]

\* Mutant of currentRedirectTo: the query parameter goes before the prop.
currentRedirectTo_QueryFirst ==
    IF cfg.redirect_to # NULL THEN cfg.redirect_to
    ELSE IF cfg.redirectTo # NULL THEN cfg.redirectTo
    ELSE cfg.defaultRedirectTo

\* redirectTo || router.query.redirect_to || defaultRedirectTo
currentRedirectTo ==
    IF cfg.redirectTo # NULL THEN cfg.redirectTo
    ELSE IF cfg.redirect_to # NULL THEN cfg.redirect_to
    ELSE cfg.defaultRedirectTo

\* useState(isRoutingEnabled ? router.pathname.split("/")[1] : initialView)
InitialView(c, path) == IF c.isRoutingEnabled THEN Segment(path) ELSE c.initialView

\* useState(startWithMagicLink || !emailPassword)
InitialIsMagicLink(c) == c.startWithMagicLink \/ ~c.emailPassword

----
\* Calls observed at the component's boundary.

\* A call: its name, the path or URL it carries, the credentials it carries.
Call(op, to, em, pw) == [op |-> op, to |-> to, email |-> em, password |-> pw]
NavCall(op, path) == Call(op, path, EmptyText, EmptyText)

NavOps == {"push", "replace"}
BackendOps == {"signInWithOtp", "signInWithPassword", "signUp",
               "resetPasswordForEmail", "updateUser"}

SelectOps(calls, ops) == SelectSeq(calls, LAMBDA c : c.op \in ops)

RECURSIVE Targets(_)
Targets(calls) ==
    IF calls = <<>> THEN <<>> ELSE <<Head(calls).to>> \o Targets(Tail(calls))

\* The calls of a step: navigations join the router's queue.
Issue(calls) ==
    /\ out' = calls
    /\ navQ' = navQ \o Targets(SelectOps(calls, NavOps))

----
\* A render.

\* What a render reads: the hook state and the router.
Closure ==
    [view |-> view, session |-> session, isLoading |-> isLoading, error |-> error,
     successMessage |-> successMessage, isMagicLink |-> isMagicLink,
     email |-> email, password |-> password, isVisible |-> isVisible,
     pathname |-> pathname]

Hooks ==
    [view |-> view, session |-> session, isLoading |-> isLoading, error |-> error,
     successMessage |-> successMessage, isMagicLink |-> isMagicLink,
     email |-> email, password |-> password, isVisible |-> isVisible]

SetHooks(h) ==
    /\ view' = h.view
    /\ session' = h.session
    /\ isLoading' = h.isLoading
    /\ error' = h.error
    /\ successMessage' = h.successMessage
    /\ isMagicLink' = h.isMagicLink
    /\ email' = h.email
    /\ password' = h.password
    /\ isVisible' = h.isVisible

Dirty == rendered # Closure
Settled == phase = "run" /\ ~Dirty

\* providers?.map((provider) => ... authProviders[provider].icon ...), rendered
\* in both social layouts while view != "update-password": the render throws a
\* TypeError when the table has no entry for a provider.
ProviderButtonsThrow(c) ==
    /\ c.view # "update-password"
    /\ \E i \in DOMAIN cfg.providers : cfg.providers[i] \notin DOMAIN authProviders

----
\* The effects. c is the closure of the render that scheduled the effect, h the
\* hook state the effect's setX calls update.

\* Mutant of RedirectEffectCalls: the view is not looked at.
RedirectEffectCalls_AnyView(c) ==
    IF c.session # NULL THEN <<NavCall("replace", currentRedirectTo)>> ELSE <<>>

\* useEffect(..., [session]): redirect the user when the session is active.
RedirectEffectCalls(c) ==
    IF c.session # NULL /\ c.view # "update-password"
    THEN <<NavCall("replace", currentRedirectTo)>>
    ELSE <<>>

\* Mutant of PathEffect: the path is never adopted.
PathEffect_NoAdopt(c, h) == h

\* Mutant of PathEffect: on every run it sets a view that is not the path's.
PathEffect_Flip(c, h) ==
    IF cfg.isRoutingEnabled
    THEN [h EXCEPT !.view = IF Segment(c.pathname) = "login" THEN "signup" ELSE "login"]
    ELSE h

\* useEffect(..., [router.pathname]): set the view based on the router path.
PathEffect(c, h) ==
    IF cfg.isRoutingEnabled /\ c.view # Segment(c.pathname)
    THEN [h EXCEPT !.view = Segment(c.pathname)]
    ELSE h

\* Mutant of ViewEffectCalls: the push is issued whatever the path is.
ViewEffectCalls_Always(c) ==
    IF cfg.isRoutingEnabled THEN <<NavCall("push", "/" \o c.view)>> ELSE <<>>

\* Mutant of ViewEffectCalls: the comparison with the path is inverted.
ViewEffectCalls_Inverted(c) ==
    IF cfg.isRoutingEnabled /\ c.view = Segment(c.pathname)
    THEN <<NavCall("push", "/" \o c.view)>>
    ELSE <<>>

\* Mutant of ViewEffectCalls: isRoutingEnabled is not looked at.
ViewEffectCalls_Unguarded(c) ==
    IF c.view # Segment(c.pathname)
    THEN <<NavCall("push", "/" \o c.view)>>
    ELSE <<>>

\* useEffect(..., [view]): the router.push of the view effect.
ViewEffectCalls(c) ==
    IF cfg.isRoutingEnabled /\ c.view # Segment(c.pathname)
    THEN <<NavCall("push", "/" \o c.view)>>
    ELSE <<>>

\* Mutant of ViewEffect: the password is reset with the banners.
ViewEffect_ClearsPassword(c, h) ==
    LET h1 == IF c.view # "login" THEN [h EXCEPT !.isMagicLink = FALSE] ELSE h
        h2 == [h1 EXCEPT !.error = NULL, !.successMessage = NULL,
                         !.password = EmptyText]
    IN  IF c.view = "signup" THEN [h2 EXCEPT !.isVisible = FALSE] ELSE h2

\* Mutant of ViewEffect: the banners are not cleared.
ViewEffect_KeepBanners(c, h) ==
    LET h1 == IF c.view # "login" THEN [h EXCEPT !.isMagicLink = FALSE] ELSE h
    IN  IF c.view = "signup" THEN [h1 EXCEPT !.isVisible = FALSE] ELSE h1

\* useEffect(..., [view]): the state updates of the view effect.
ViewEffect(c, h) ==
    LET h1 == IF c.view # "login" THEN [h EXCEPT !.isMagicLink = FALSE] ELSE h
        h2 == [h1 EXCEPT !.error = NULL, !.successMessage = NULL]
    IN  IF c.view = "signup" THEN [h2 EXCEPT !.isVisible = FALSE] ELSE h2

\* Mutant of ModeEffect: the email is reset with the password.
ModeEffect_ClearsEmail(c, h) ==
    [h EXCEPT !.password = EmptyText, !.email = EmptyText,
              !.error = NULL, !.successMessage = NULL]

\* Mutant of ModeEffect: the password is not reset.
ModeEffect_KeepPassword(c, h) ==
    [h EXCEPT !.error = NULL, !.successMessage = NULL]

\* useEffect(..., [isMagicLink])
ModeEffect(c, h) ==
    [h EXCEPT !.password = EmptyText, !.error = NULL, !.successMessage = NULL]

\* useEffect(..., [magicLink, startWithMagicLink, emailPassword])
ConfigEffect(c, h) ==
    LET h1 == IF cfg.startWithMagicLink \/ ~cfg.emailPassword
              THEN [h EXCEPT !.isMagicLink = TRUE] ELSE h
    IN  IF ~cfg.magicLink THEN [h1 EXCEPT !.isMagicLink = FALSE] ELSE h1

\* The effects of a render with closure c, run in declaration order; `all` on mount,
\* else those whose dependency differs from the previous render's.
RunEffects(c, prev, all) ==
    LET dS == all \/ c.session # prev.session
        dP == all \/ c.pathname # prev.pathname
        dV == all \/ c.view # prev.view
        dM == all \/ c.isMagicLink # prev.isMagicLink
        h0 == Hooks
        h1 == IF dP THEN PathEffect(c, h0) ELSE h0
        h2 == IF dV THEN ViewEffect(c, h1) ELSE h1
        h3 == IF dM THEN ModeEffect(c, h2) ELSE h2
        h4 == IF all THEN ConfigEffect(c, h3) ELSE h3
    IN  /\ SetHooks(h4)
        /\ Issue((IF dS THEN RedirectEffectCalls(c) ELSE <<>>)
                 \o (IF dV THEN ViewEffectCalls(c) ELSE <<>>))

----
InitWith(configs, paths) ==
    /\ cfg \in configs
    /\ pathname \in paths
    /\ navQ = <<>>
    /\ view = InitialView(cfg, pathname)
    /\ session = NULL
    /\ isLoading = FALSE
    /\ error = NULL
    /\ successMessage = NULL
    /\ isMagicLink = InitialIsMagicLink(cfg)
    /\ email = EmptyText
    /\ password = EmptyText
    /\ isVisible = FALSE
    /\ rendered = Closure
    /\ phase = IF ProviderButtonsThrow(Closure) THEN "crashed" ELSE "mount"
    /\ getSession = "idle"
    /\ mountView = view
    /\ subscribed = FALSE
    /\ inflight = [op \in BackendOps |-> 0]
    /\ out = <<>>

Init == InitWith(Configs, Paths)

\* The effects of the first render: the session effect calls getSession() and
\* subscribes; then every other effect runs once.
Mount ==
    /\ phase = "mount"
    /\ phase' = "run"
    /\ getSession' = "pending"
    /\ subscribed' = TRUE
    /\ RunEffects(rendered, rendered, TRUE)
    /\ UNCHANGED <<cfg, pathname, rendered, mountView, inflight>>

\* A re-render, and the effects it schedules.
Render ==
    /\ phase = "run"
    /\ Dirty
    /\ ~ProviderButtonsThrow(Closure)
    /\ rendered' = Closure
    /\ RunEffects(Closure, rendered, FALSE)
    /\ UNCHANGED <<cfg, pathname, phase, getSession, mountView, subscribed, inflight>>

\* A re-render that throws: React removes the component, which runs the cleanup
\* of the session effect; no effect of the failed render runs.
RenderThrow ==
    /\ phase = "run"
    /\ Dirty
    /\ ProviderButtonsThrow(Closure)
    /\ phase' = "crashed"
    /\ subscribed' = FALSE
    /\ out' = <<Call("TypeError", NULL, EmptyText, EmptyText),
                Call("unsubscribe", NULL, EmptyText, EmptyText)>>
    /\ UNCHANGED <<cfg, pathname, navQ, hooks, rendered, getSession, mountView, inflight>>

----
\* The user's navigation intents. The footer and the provider buttons are rendered
\* only while view != "update-password"; the forgot-password link always is (the
\* other views hide it by style only).

CanNavigate == Len(navQ) < MaxNav
FooterRendered == rendered.view # "update-password"

SetViewByUser(v, magic) ==
    /\ Settled
    /\ CanNavigate
    /\ view' = v
    /\ isMagicLink' = magic
    /\ out' = <<>>
    /\ UNCHANGED <<cfg, pathname, navQ, session, isLoading, error, successMessage,
                   email, password, isVisible, rendered, phase, getSession,
                   mountView, subscribed, inflight>>

\* onPress={() => setView("signup")}
GoToSignup == FooterRendered /\ SetViewByUser("signup", isMagicLink)

\* onPress={() => setView("login")}
GoToLogin == FooterRendered /\ SetViewByUser("login", isMagicLink)

\* onPressStart={() => setView("forgot-password")}
GoToForgotPassword == SetViewByUser("forgot-password", isMagicLink)

\* onPress={() => { setView("login"); setIsMagicLink(true) }}
PressEmailProvider == FooterRendered /\ SetViewByUser("login", TRUE)

\* onPress={() => { setView("login"); setIsMagicLink(false) }}
PressPasswordProvider == FooterRendered /\ SetViewByUser("login", FALSE)

\* onPress={() => supabaseClient.auth.signInWithOAuth({ provider })}
PressProvider(i) ==
    /\ Settled
    /\ FooterRendered
    /\ i \in DOMAIN cfg.providers
    /\ out' = <<Call("signInWithOAuth", cfg.providers[i], EmptyText, EmptyText)>>
    /\ UNCHANGED <<cfg, pathname, navQ, hooks, rendered, phase, getSession, mountView,
                   subscribed, inflight>>

----
\* The inputs.

\* isDisabled of the email Input
EmailDisabled(c) == c.view = "update-password"

\* isDisabled of the password Input
PasswordDisabled(c) == ~cfg.emailPassword \/ c.isMagicLink \/ c.view = "update-password"

\* isDisabled of the visibility toggle
ToggleDisabled(c) == c.view \notin {"signup", "update-password"}

\* Mutant of PasswordValue: the stored password is handed over in every mode.
PasswordValue_Raw(c) == c.password

\* value={isMagicLink ? "" : password} of the password Input
PasswordValue(c) == IF c.isMagicLink THEN EmptyText ELSE c.password

\* className of the password Input: shown ("opacity-1") or collapsed
PasswordVisible(c) ==
    /\ cfg.emailPassword
    /\ ~c.isMagicLink
    /\ c.view \in {"login", "signup", "update-password"}

\* onValueChange={(value) => { setEmail(value) }}
SetEmail(v) ==
    /\ Settled
    /\ ~EmailDisabled(rendered)
    /\ v # email
    /\ email' = v
    /\ out' = <<>>
    /\ UNCHANGED <<cfg, pathname, navQ, view, session, isLoading, error,
                   successMessage, isMagicLink, password, isVisible, rendered, phase,
                   getSession, mountView, subscribed, inflight>>

\* onValueChange={setPassword}
SetPassword(v) ==
    /\ Settled
    /\ ~PasswordDisabled(rendered)
    /\ v # password
    /\ password' = v
    /\ out' = <<>>
    /\ UNCHANGED <<cfg, pathname, navQ, view, session, isLoading, error,
                   successMessage, isMagicLink, email, isVisible, rendered, phase,
                   getSession, mountView, subscribed, inflight>>

\* onPressStart={() => setIsVisible(!isVisible)}
ToggleVisible ==
    /\ Settled
    /\ ~ToggleDisabled(rendered)
    /\ isVisible' = ~rendered.isVisible
    /\ out' = <<>>
    /\ UNCHANGED <<cfg, pathname, navQ, view, session, isLoading, error,
                   successMessage, isMagicLink, email, password, rendered, phase,
                   getSession, mountView, subscribed, inflight>>

----
\* The session watcher.

\* getSession().then(({ data: { session } }) => { ... }): the closure is the mount
\* effect's, so `view` is the view of the first render.
GetSessionThen(mv, s, h) ==
    LET h1 == IF mv = "update-password" /\ s = NULL THEN [h EXCEPT !.view = "login"] ELSE h
    IN  [h1 EXCEPT !.session = s]

FetchResolve(s) ==
    /\ Settled
    /\ CanNavigate
    /\ getSession = "pending"
    /\ getSession' = "resolved"
    /\ SetHooks(GetSessionThen(mountView, s, Hooks))
    /\ out' = <<>>
    /\ UNCHANGED <<cfg, pathname, navQ, rendered, phase, mountView, subscribed, inflight>>

\* Mutant of AuthStateChange: an event without a session is ignored.
AuthStateChange_KeepPresent(s) ==
    /\ Settled
    /\ CanNavigate
    /\ subscribed
    /\ session' = IF s = NULL THEN session ELSE s
    /\ out' = <<>>
    /\ UNCHANGED <<cfg, pathname, navQ, view, isLoading, error, successMessage,
                   isMagicLink, email, password, isVisible, rendered, phase,
                   getSession, mountView, subscribed, inflight>>

\* onAuthStateChange((_event, session) => { setSession(session) })
AuthStateChange(s) ==
    /\ Settled
    /\ CanNavigate
    /\ subscribed
    /\ session' = s
    /\ out' = <<>>
    /\ UNCHANGED <<cfg, pathname, navQ, view, isLoading, error, successMessage,
                   isMagicLink, email, password, isVisible, rendered, phase,
                   getSession, mountView, subscribed, inflight>>

\* Mutant of Unmount: the cleanup does not release the subscription.
Unmount_NoCleanup ==
    /\ phase = "run"
    /\ phase' = "unmounted"
    /\ out' = <<>>
    /\ UNCHANGED <<cfg, pathname, navQ, hooks, rendered, getSession, mountView,
                   subscribed, inflight>>

\* The component is removed: React runs the cleanup of the session effect,
\* return () => subscription.unsubscribe(), once; the other effects have no cleanup.
Unmount ==
    /\ phase = "run"
    /\ phase' = "unmounted"
    /\ subscribed' = FALSE
    /\ out' = <<Call("unsubscribe", NULL, EmptyText, EmptyText)>>
    /\ UNCHANGED <<cfg, pathname, navQ, hooks, rendered, getSession, mountView, inflight>>

\* The getSession() promise resolves after the component was removed: nothing
\* cancels it, its callback runs and calls setView / setSession, and React drops
\* the updates of a component that is not mounted (no render, no effect).
FetchResolveUnmounted(s) ==
    /\ phase = "unmounted"
    /\ getSession = "pending"
    /\ getSession' = "resolved"
    /\ out' = <<>>
    /\ UNCHANGED <<cfg, pathname, navQ, hooks, rendered, phase, mountView, subscribed,
                   inflight>>

----
\* The form. validationBehavior="native": the submit event reaches handleSubmit
\* only when the validate function of every input that is not disabled accepts
\* its value; otherwise the inputs show their errorMessage.

email_magic_link_text == "Check your email for the magic link"
email_reset_password_text == "Check your email for the password reset link"
email_confirmation_text == "Check your email for the confirmation link"

\* Mutant of EmailValid: every value is accepted.
EmailValid_Any(value) == TRUE

\* validate={(value) => value?.includes("@") ? true : localization.error_email_text}
EmailValid(value) == Includes(value, "@")

\* validate={(value) => !value?.length && localization.error_password_text}
PasswordValid(value) == Len(value) # 0

FieldErrors(c) ==
    (IF ~EmailDisabled(c) /\ ~EmailValid(c.email)
     THEN <<Call("error_email_text", NULL, c.email, EmptyText)>> ELSE <<>>)
    \o (IF ~PasswordDisabled(c) /\ ~PasswordValid(c.password)
        THEN <<Call("error_password_text", NULL, EmptyText, c.password)>> ELSE <<>>)

\* isDisabled of the submit Button
SubmitDisabled(c) == c.session # NULL /\ c.view # "update-password"

\* Mutant of BackendCall: the signup case calls the sign-in method.
BackendCall_SignupSignsIn(c) ==
    CASE c.view = "login" /\ c.isMagicLink ->
           <<Call("signInWithOtp", cfg.baseUrl \o "/" \o currentRedirectTo,
                  c.email, EmptyText)>>
      [] c.view = "login" /\ ~c.isMagicLink ->
           <<Call("signInWithPassword", NULL, c.email, c.password)>>
      [] c.view = "signup" -> <<Call("signInWithPassword", NULL, c.email, c.password)>>
      [] c.view = "forgot-password" ->
           <<Call("resetPasswordForEmail", cfg.baseUrl \o "/update-password",
                  c.email, EmptyText)>>
      [] c.view = "update-password" ->
           <<Call("updateUser", NULL, EmptyText, c.password)>>
      [] OTHER -> <<>>

\* switch (view) of handleSubmit: the backend call of each case, none when no
\* case matches.
BackendCall(c) ==
    CASE c.view = "login" /\ c.isMagicLink ->
           <<Call("signInWithOtp", cfg.baseUrl \o "/" \o currentRedirectTo,
                  c.email, EmptyText)>>
      [] c.view = "login" /\ ~c.isMagicLink ->
           <<Call("signInWithPassword", NULL, c.email, c.password)>>
      [] c.view = "signup" -> <<Call("signUp", NULL, c.email, c.password)>>
      [] c.view = "forgot-password" ->
           <<Call("resetPasswordForEmail", cfg.baseUrl \o "/update-password",
                  c.email, EmptyText)>>
      [] c.view = "update-password" ->
           <<Call("updateUser", NULL, EmptyText, c.password)>>
      [] OTHER -> <<>>

\* handleSubmit up to its await: the reset of the banners, setIsLoading(true) and
\* the backend call; with no matching case it runs on to setIsLoading(false).
HandleSubmitStart(c, h) ==
    [h EXCEPT !.error = NULL, !.successMessage = NULL,
              !.isLoading = (BackendCall(c) # <<>>)]

RECURSIVE Sum(_, _)
Sum(f, S) == IF S = {} THEN 0 ELSE LET x == CHOOSE x \in S : TRUE IN f[x] + Sum(f, S \ {x})

\* The number of backend submit calls pending.
InFlight == Sum(inflight, BackendOps)

RECURSIVE Sent(_, _)
Sent(bag, calls) ==
    IF calls = <<>> THEN bag
    ELSE Sent([bag EXCEPT ![Head(calls).op] = @ + 1], Tail(calls))

Submit ==
    /\ Settled
    /\ ~SubmitDisabled(rendered)
    /\ IF FieldErrors(rendered) # <<>>
       THEN /\ out' = FieldErrors(rendered)
            /\ UNCHANGED <<hooks, inflight>>
       ELSE /\ InFlight < MaxInFlight
            /\ SetHooks(HandleSubmitStart(rendered, Hooks))
            /\ out' = BackendCall(rendered)
            /\ inflight' = Sent(inflight, BackendCall(rendered))
    /\ UNCHANGED <<cfg, pathname, navQ, rendered, phase, getSession, mountView, subscribed>>

Outcomes == {"ok", "error", "throw"}

\* signUp resolves without error in two ways: with a session ("ok": the account
\* can be used at once) or with a user and no session ("confirm": the email has
\* to be confirmed first). handleSubmit reads only the error of the result.
SignUpOutcomes == Outcomes \cup {"confirm"}
OutcomesOf(op) == IF op = "signUp" THEN SignUpOutcomes ELSE Outcomes

\* Mutant of HandleSubmitResume: a successful email-link request keeps the email.
HandleSubmitResume_KeepEmail(op, outcome, h) ==
    IF outcome = "throw" THEN h
    ELSE LET err == IF outcome = "error" THEN AuthError ELSE NULL
             h1 == [h EXCEPT !.error = err]
             h2 == CASE op = "signInWithOtp" /\ err = NULL ->
                          [h1 EXCEPT !.successMessage = email_magic_link_text]
                     [] op = "resetPasswordForEmail" /\ err = NULL ->
                          [h1 EXCEPT !.successMessage = email_reset_password_text]
                     [] OTHER -> h1
         IN  [h2 EXCEPT !.isLoading = FALSE]

\* handleSubmit after its await, for the call `op` and the outcome of its promise.
\* A rejected promise leaves handleSubmit by the exception: nothing after the
\* await runs.
HandleSubmitResume(op, outcome, h) ==
    IF outcome = "throw" THEN h
    ELSE LET err == IF outcome = "error" THEN AuthError ELSE NULL
             h1 == [h EXCEPT !.error = err]
             h2 == CASE op = "signInWithOtp" /\ err = NULL ->
                          [h1 EXCEPT !.successMessage = email_magic_link_text,
                                     !.email = EmptyText]
                     [] op = "resetPasswordForEmail" /\ err = NULL ->
                          [h1 EXCEPT !.successMessage = email_reset_password_text,
                                     !.email = EmptyText]
                     [] OTHER -> h1
         IN  [h2 EXCEPT !.isLoading = FALSE]

\* !error && router.replace("/") of the update-password case
HandleSubmitResumeCalls(op, outcome) ==
    IF op = "updateUser" /\ outcome = "ok" THEN <<NavCall("replace", "/")>> ELSE <<>>

SubmitComplete(op, outcome) ==
    /\ Settled
    /\ CanNavigate
    /\ inflight[op] > 0
    /\ SetHooks(HandleSubmitResume(op, outcome, Hooks))
    /\ Issue(HandleSubmitResumeCalls(op, outcome))
    /\ inflight' = [inflight EXCEPT ![op] = @ - 1]
    /\ UNCHANGED <<cfg, pathname, rendered, phase, getSession, mountView, subscribed>>

----
\* The router.

\* The path changes from outside the component (link, back button, host code).
ExternalPathChange(p) ==
    /\ Settled
    /\ p # pathname
    /\ pathname' = p
    /\ out' = <<>>
    /\ UNCHANGED <<cfg, navQ, hooks, rendered, phase, getSession, mountView, subscribed, inflight>>

\* The oldest pending router.push / router.replace completes: the router takes
\* the navigations in the order they were issued.
NavComplete ==
    /\ Settled
    /\ navQ # <<>>
    /\ pathname' = Head(navQ)
    /\ navQ' = Tail(navQ)
    /\ out' = <<>>
    /\ UNCHANGED <<cfg, hooks, rendered, phase, getSession, mountView, subscribed, inflight>>

Next ==
    \/ Mount
    \/ Render
    \/ GoToSignup
    \/ GoToLogin
    \/ GoToForgotPassword
    \/ PressEmailProvider
    \/ PressPasswordProvider
    \/ \E v \in Emails : SetEmail(v)
    \/ \E v \in Passwords : SetPassword(v)
    \/ ToggleVisible
    \/ \E s \in Sessions \cup {NULL} : FetchResolve(s)
    \/ \E s \in Sessions \cup {NULL} : AuthStateChange(s)
    \/ \E p \in Paths : ExternalPathChange(p)
    \/ NavComplete
    \/ Submit
    \/ \E op \in BackendOps : \E outcome \in OutcomesOf(op) : SubmitComplete(op, outcome)
    \/ Unmount
    \/ \E s \in Sessions \cup {NULL} : FetchResolveUnmounted(s)
    \/ RenderThrow
    \/ \E i \in 1..2 : PressProvider(i)

Spec == Init /\ [][Next]_vars

----
\* The complete machine is the product of the view controller, the session
\* watcher and the form; it is explored in two restrictions of Spec, each with
\* some of the host's configurations and some of the user's and host's events.

ViewPaths == {"/login", "/signup", "/forgot-password", "/update-password"}

\* View controller and session watcher: routing on (mounted on any path) or off
\* (any initialView), with and without a redirect_to query parameter.
RouteConfigs ==
    {c \in Configs :
        /\ c.magicLink /\ c.emailPassword /\ ~c.startWithMagicLink
        /\ c.redirectTo = NULL /\ c.defaultRedirectTo = "/"
        /\ c.providers = <<>>
        /\ c.isRoutingEnabled => c.initialView = "login"}

InitRoute ==
    /\ InitWith(RouteConfigs, ViewPaths \cup {"/"})
    /\ ~cfg.isRoutingEnabled => pathname = "/login"

NextRoute ==
    \/ Mount
    \/ Render
    \/ GoToSignup
    \/ GoToLogin
    \/ GoToForgotPassword
    \/ PressEmailProvider
    \/ PressPasswordProvider
    \/ \E s \in Sessions \cup {NULL} : FetchResolve(s)
    \/ \E s \in Sessions \cup {NULL} : AuthStateChange(s)
    \/ \E p \in ViewPaths \cup {"/"} : ExternalPathChange(p)
    \/ NavComplete

SpecRoute == InitRoute /\ [][NextRoute]_vars

\* Form: routing off, any initialView; the session comes from the initial fetch.
FormConfigs ==
    {c \in Configs :
        /\ ~c.isRoutingEnabled
        /\ c.magicLink /\ c.emailPassword /\ ~c.startWithMagicLink
        /\ c.providers = <<>>
        /\ c.redirectTo = NULL /\ c.redirect_to = NULL /\ c.defaultRedirectTo = "/"}

InitForm == InitWith(FormConfigs, {"/login"})

NextForm ==
    \/ Mount
    \/ Render
    \/ GoToSignup
    \/ GoToLogin
    \/ GoToForgotPassword
    \/ PressEmailProvider
    \/ PressPasswordProvider
    \/ \E v \in Emails : SetEmail(v)
    \/ \E v \in Passwords : SetPassword(v)
    \/ \E s \in Sessions \cup {NULL} : FetchResolve(s)
    \/ NavComplete
    \/ Submit
    \/ \E op \in BackendOps, outcome \in Outcomes : SubmitComplete(op, outcome)

SpecForm == InitForm /\ [][NextForm]_vars

\* Mode controller: routing off, every combination of the magicLink, emailPassword
\* and startWithMagicLink props, any initialView; the user moves between the views
\* and the modes, types a password and toggles its visibility.
ModeConfigs ==
    {c \in Configs :
        /\ ~c.isRoutingEnabled
        /\ c.providers = <<>>
        /\ c.redirectTo = NULL /\ c.redirect_to = NULL /\ c.defaultRedirectTo = "/"}

InitMode == InitWith(ModeConfigs, {"/login"})

NextMode ==
    \/ Mount
    \/ Render
    \/ GoToSignup
    \/ GoToLogin
    \/ GoToForgotPassword
    \/ PressEmailProvider
    \/ PressPasswordProvider
    \/ \E v \in Passwords : SetPassword(v)
    \/ ToggleVisible

SpecMode == InitMode /\ [][NextMode]_vars

\* Redirect target: routing off, the login and update-password views, every
\* combination of the redirectTo prop, the redirect_to query parameter and the
\* defaultRedirectTo prop; the session arrives, the user submits.
RedirectConfigs ==
    {c \in Configs :
        /\ ~c.isRoutingEnabled
        /\ c.magicLink /\ c.emailPassword /\ ~c.startWithMagicLink
        /\ c.providers = <<>>
        /\ c.initialView \in {"login", "update-password"}}

InitRedirect == InitWith(RedirectConfigs, {"/login"})

NextRedirect ==
    \/ Mount
    \/ Render
    \/ PressEmailProvider
    \/ \E v \in Emails : SetEmail(v)
    \/ \E s \in Sessions \cup {NULL} : FetchResolve(s)
    \/ \E s \in Sessions \cup {NULL} : AuthStateChange(s)
    \/ NavComplete
    \/ Submit
    \/ \E op \in BackendOps, outcome \in Outcomes : SubmitComplete(op, outcome)

SpecRedirect == InitRedirect /\ [][NextRedirect]_vars

\* Signup: the form of FormConfigs between the signup and login views, with the
\* two ways signUp has of resolving without error told apart.
NextSignup ==
    \/ Mount
    \/ Render
    \/ GoToSignup
    \/ GoToLogin
    \/ \E v \in Emails : SetEmail(v)
    \/ \E v \in Passwords : SetPassword(v)
    \/ NavComplete
    \/ Submit
    \/ \E op \in BackendOps : \E outcome \in OutcomesOf(op) : SubmitComplete(op, outcome)

SpecSignup == InitForm /\ [][NextSignup]_vars

\* Life cycle: the view controller and the session watcher of RouteConfigs, from
\* mount to removal; the user moves between login and signup.
NextLife ==
    \/ Mount
    \/ Render
    \/ GoToSignup
    \/ GoToLogin
    \/ \E s \in Sessions \cup {NULL} : FetchResolve(s)
    \/ \E s \in Sessions \cup {NULL} : AuthStateChange(s)
    \/ NavComplete
    \/ Unmount
    \/ \E s \in Sessions \cup {NULL} : FetchResolveUnmounted(s)

SpecLife == InitRoute /\ [][NextLife]_vars

\* Provider buttons: routing off, default flags, every value of the providers
\* prop, any initialView; the session arrives, the user moves between the views
\* and presses the provider buttons.
ProviderConfigs ==
    {c \in Configs :
        /\ ~c.isRoutingEnabled
        /\ c.magicLink /\ c.emailPassword /\ ~c.startWithMagicLink
        /\ c.redirectTo = NULL /\ c.redirect_to = NULL /\ c.defaultRedirectTo = "/"}

InitProviders == InitWith(ProviderConfigs, {"/login"})

NextProviders ==
    \/ Mount
    \/ Render
    \/ RenderThrow
    \/ GoToSignup
    \/ GoToLogin
    \/ GoToForgotPassword
    \/ \E i \in 1..2 : PressProvider(i)
    \/ \E s \in Sessions \cup {NULL} : FetchResolve(s)
    \/ NavComplete

SpecProviders == InitProviders /\ [][NextProviders]_vars

\* The scheduling the run relies on: React runs the effects and re-renders it has
\* scheduled, and the router completes the navigations it has accepted.
SpecRouteFair ==
    SpecRoute /\ WF_vars(Mount) /\ WF_vars(Render) /\ WF_vars(NavComplete)

----
\* Properties.

Pushes(calls) == SelectOps(calls, {"push"})
Replaces(calls) == SelectOps(calls, {"replace"})
Has(calls, op) == \E i \in DOMAIN calls : calls[i].op = op

\* Nothing is pending: the render is up to date and the router is idle.
Quiet == Settled /\ navQ = <<>>

\* C1: with routing enabled, whenever nothing is pending (no effect, no state
\* update, no router navigation) the view is the first segment of the path.
C1_ViewEqualsPath ==
    (cfg.isRoutingEnabled /\ Quiet) => view = Segment(pathname)

\* C1 witness: mounted on /update-password without a session, the fallback has
\* moved the view to login and the router has followed.
C1_Witness ==
    /\ cfg.isRoutingEnabled /\ Quiet
    /\ mountView = "update-password" /\ getSession = "resolved" /\ session = NULL
    /\ view = "login" /\ pathname = "/login"

\* Steps of the component itself and of the router, as opposed to events.
Internal == Mount \/ Render \/ NavComplete

\* C2: the path effect and the view effect do not feed each other for ever: once
\* the user's intents and the external path changes stop, the component and the
\* router come to rest, with nothing pending, and stay there.
C2_NoInfiniteLoop == <>[][Internal]_vars => <>[]Quiet

\* C2 witness: two pushes are pending at once (an intent arrived while the push
\* of an earlier one had not completed).
C2_Witness ==
    /\ cfg.isRoutingEnabled /\ Settled
    /\ Len(navQ) = 2 /\ navQ[1] # navQ[2]
    /\ view = Segment(navQ[2])

\* C3: with routing enabled, a render that sees a new path /v, v a view, adopts v
\* as the view and issues no push, and the render of the adopted view issues no
\* push either.
C3_ExternalPathAdopted ==
    [][(/\ cfg.isRoutingEnabled
        /\ phase = "run" /\ Dirty
        /\ Segment(pathname) \in Views
        /\ (rendered.pathname # pathname \/ view = Segment(pathname)))
       => (view' = Segment(pathname) /\ Pushes(out') = <<>>)]_vars

\* C3 witness: the last render saw a path that was not the view's, with no
\* navigation pending, and the view has just been set to the path's segment.
C3_Witness ==
    /\ cfg.isRoutingEnabled /\ phase = "run"
    /\ navQ = <<>> /\ out = <<>>
    /\ rendered.pathname = pathname
    /\ rendered.view # Segment(pathname)
    /\ view = Segment(pathname) /\ view \in Views

\* C4: with routing disabled the view of the first render is initialView and the
\* mount effects keep it, no render changes the view whatever the path is, and no
\* step issues a router.push.
C4_RoutingDisabled ==
    [][~cfg.isRoutingEnabled =>
         /\ phase = "mount" => (view = cfg.initialView /\ view' = cfg.initialView)
         /\ (phase = "mount" \/ Dirty) => view' = view
         /\ Pushes(out') = <<>>]_vars

\* C4 witness: routing is disabled, the user has left the initial view and the
\* path has moved to a third view; nothing is pending.
C4_Witness ==
    /\ ~cfg.isRoutingEnabled /\ Quiet
    /\ view \in Views /\ view # cfg.initialView
    /\ Segment(pathname) \in Views \ {view, cfg.initialView}

\* C5: no up-to-date render shows update-password once the session fetch has
\* resolved and there is no session.
C5_NoUpdatePasswordWithoutSession ==
    ~(Settled /\ view = "update-password" /\ getSession = "resolved" /\ session = NULL)

\* C6: the render that sees the session go from absent to present issues exactly
\* the navigation router.replace(currentRedirectTo) when the view is login, and no
\* navigation when the view is update-password; a render that sees no change of
\* session issues no router.replace.
C6_RedirectOnSession ==
    [][(phase = "run" /\ Dirty) =>
         /\ (rendered.session = NULL /\ session # NULL /\ view = "login")
              => out' = <<NavCall("replace", currentRedirectTo)>>
         /\ (rendered.session = NULL /\ session # NULL /\ view = "update-password")
              => out' = <<>>
         /\ rendered.session = session => Replaces(out') = <<>>]_vars

\* C6 witness: the redirect has just been issued from the login view, to the
\* redirect_to of the query.
C6_Witness ==
    /\ rendered.view = "login" /\ rendered.session # NULL
    /\ cfg.redirect_to # NULL
    /\ out = <<NavCall("replace", cfg.redirect_to)>>

\* C7: at most one of error and successMessage is populated.
C7_OneBanner == ~(error # NULL /\ successMessage # NULL)

\* C8: at most one backend submit call is in flight.
C8_SingleFlight == InFlight <= 1

\* C9: once every backend call of the submits has completed, with whatever
\* outcome, and the render is up to date, isLoading is false.
C9_LoadingCleared == (Settled /\ InFlight = 0) => ~isLoading

\* C10: in a view other than update-password, a submit whose email has no "@"
\* calls no backend method, leaves isLoading, error and successMessage as they
\* are, and shows the email field's error.
C10_EmailValidated ==
    [][(Submit /\ rendered.view # "update-password" /\ ~Includes(rendered.email, "@"))
       => /\ SelectOps(out', BackendOps) = <<>>
          /\ inflight' = inflight
          /\ isLoading' = isLoading
          /\ error' = error
          /\ successMessage' = successMessage
          /\ Has(out', "error_email_text")]_vars

\* C10 witness: the submit of the login form with the email "a" has just been
\* refused with the email field's error and nothing in flight.
C10_Witness ==
    /\ rendered.view = "login"
    /\ Has(out, "error_email_text")
    /\ email = <<"a">>
    /\ InFlight = 0 /\ ~isLoading

\* C11: in login, signup or update-password, in password mode, a submit with an
\* empty password calls no backend method, leaves isLoading as it is, and shows
\* the password field's error.
C11_PasswordValidated ==
    [][(/\ Submit
        /\ rendered.view \in {"login", "signup", "update-password"}
        /\ ~rendered.isMagicLink
        /\ rendered.password = EmptyText)
       => /\ SelectOps(out', BackendOps) = <<>>
          /\ inflight' = inflight
          /\ isLoading' = isLoading
          /\ Has(out', "error_password_text")]_vars

\* The method the dispatch table of the submit gives for a view and a mode.
DispatchTable(v, magic) ==
    CASE v = "login" /\ magic -> "signInWithOtp"
      [] v = "login" /\ ~magic -> "signInWithPassword"
      [] v = "signup" -> "signUp"
      [] v = "forgot-password" -> "resetPasswordForEmail"
      [] v = "update-password" -> "updateUser"

C13_EmailLinkSuccess ==
    [][/\ SubmitComplete("signInWithOtp", "ok")
            => /\ ~isLoading' /\ error' = NULL
               /\ successMessage' = email_magic_link_text
               /\ email' = EmptyText
       /\ SubmitComplete("resetPasswordForEmail", "ok")
            => /\ ~isLoading' /\ error' = NULL
               /\ successMessage' = email_reset_password_text
               /\ email' = EmptyText
       /\ (phase = "run" /\ Dirty /\ rendered.view = view
           /\ rendered.isMagicLink = isMagicLink)
            => UNCHANGED <<isLoading, error, successMessage, email>>]_vars

\* C13 witness: the login view in magic-link mode shows the magic-link text after
\* its only request completed: nothing pending, no error, the email emptied.
C13_Witness ==
    /\ Settled /\ InFlight = 0
    /\ rendered.view = "login" /\ rendered.isMagicLink
    /\ successMessage = email_magic_link_text
    /\ error = NULL /\ ~isLoading /\ email = EmptyText

\* C14: the completion of a backend call with an error leaves error that error
\* and successMessage empty, keeps the email and the password, issues no
\* navigation and no backend call, and only removes the call from those pending.
C14_ErrorSurfaced ==
    [][\A op \in BackendOps :
         SubmitComplete(op, "error")
           => /\ error' = AuthError
              /\ successMessage' = NULL
              /\ email' = email /\ password' = password
              /\ out' = <<>> /\ navQ' = navQ
              /\ inflight' = [inflight EXCEPT ![op] = @ - 1]]_vars

\* C15: with magicLink = false no up-to-date render is in magic-link mode,
\* whatever startWithMagicLink and emailPassword are and whatever the user did.
C15_MagicLinkDisabled == (Settled /\ ~cfg.magicLink) => ~isMagicLink

\* C16: an up-to-date render in magic-link mode shows the login view.
C16_MagicLinkOnlyInLogin == (Settled /\ isMagicLink) => view = "login"

\* C17: with emailPassword = false and magicLink = true, an up-to-date render of
\* the login view is in magic-link mode.
C17_MagicLinkForced ==
    (Settled /\ ~cfg.emailPassword /\ cfg.magicLink /\ view = "login") => isMagicLink

\* C18: the render that sees the mode switched to magic link leaves the stored
\* password empty, and while the magic-link mode is rendered the stored password
\* stays empty.
C18_PasswordClearedOnSwitch ==
    [][/\ (phase = "run" /\ Dirty /\ ~rendered.isMagicLink /\ isMagicLink)
            => password' = EmptyText
       /\ (Settled /\ isMagicLink) => (password = EmptyText /\ password' = EmptyText)]_vars

\* C18 witness: the render that saw the switch to magic link still saw the
\* password "p", and the stored password is now empty.
C18_Witness ==
    /\ phase = "run"
    /\ rendered.isMagicLink /\ isMagicLink
    /\ rendered.password = <<"p">>
    /\ password = EmptyText

\* C19: a render in magic-link mode hands the empty string to the password input
\* and shows the input collapsed, whatever the stored password is.
C19_NoPasswordShownInMagicLink ==
    rendered.isMagicLink => (PasswordValue(rendered) = EmptyText /\ ~PasswordVisible(rendered))

\* C19 witness: a render in magic-link mode whose stored password is not empty.
C19_Witness ==
    /\ rendered.isMagicLink
    /\ rendered.password # EmptyText
    /\ rendered.view = "login"

\* C20: the render that sees a change of the view or of the mode leaves error and
\* successMessage empty, and a submit that reaches the backend has emptied both
\* when it issues its call.
C20_BannersCleared ==
    [][/\ (/\ phase = "run" /\ Dirty
           /\ (rendered.view # view \/ rendered.isMagicLink # isMagicLink))
            => (error' = NULL /\ successMessage' = NULL)
       /\ (Submit /\ SelectOps(out', BackendOps) # <<>>)
            => (error' = NULL /\ successMessage' = NULL)]_vars

\* C20 witness: the render of the signup view that saw the view change still saw
\* the error of the previous view, and the error is now empty; no call is pending.
C20_Witness ==
    /\ phase = "run" /\ InFlight = 0
    /\ rendered.view = "signup" /\ view = "signup"
    /\ rendered.error = AuthError
    /\ error = NULL /\ successMessage = NULL

\* C21: a session-change event leaves the stored session equal to the event's
\* session, present or absent, whatever was stored; and the stored session is
\* changed by nothing but such an event or the resolution of the initial fetch,
\* so it is the last event's until then.
C21_LastEventWins ==
    [][/\ \A s \in Sessions \cup {NULL} : AuthStateChange(s) => session' = s
       /\ session' # session
            => \E s \in Sessions \cup {NULL} : AuthStateChange(s) \/ FetchResolve(s)]_vars

\* C21 witness: before the initial fetch has resolved, the last render saw the
\* session of one event and a later event has replaced it with no session.
C21_Witness ==
    /\ getSession = "pending" /\ phase = "run"
    /\ rendered.session = "s1"
    /\ session = NULL

\* C22: the removal of the component releases the subscription, by one
\* unsubscribe call; no other step unsubscribes, and once the component is
\* removed no step (the late resolution of the initial fetch included) changes a
\* hook, issues a call or a navigation, or subscribes again.
C22_ReleasedOnUnmount ==
    [][/\ (phase = "run" /\ phase' = "unmounted")
            => (subscribed /\ ~subscribed' /\ Len(out') = 1 /\ out'[1].op = "unsubscribe")
       /\ (out' # <<>> /\ Has(out', "unsubscribe"))
            => (phase = "run" /\ phase' = "unmounted")
       /\ phase = "unmounted"
            => (/\ hooks' = hooks /\ navQ' = navQ /\ out' = <<>>
                /\ ~subscribed' /\ phase' = "unmounted")]_vars

\* C22 witness: the component was removed while the initial fetch was pending,
\* in the update-password view; the fetch has since resolved, and the view, the
\* session and the router are as the removal left them.
C22_Witness ==
    /\ phase = "unmounted" /\ getSession = "resolved" /\ ~subscribed
    /\ mountView = "update-password" /\ view = "update-password"
    /\ session = NULL /\ navQ = <<>> /\ out = <<>>

\* C23: a forgot-password submit that passes validation calls
\* resetPasswordForEmail with the callback URL baseUrl/update-password carrying
\* the redirect target as the query parameter redirect_to.
C23_ResetCallbackUrl ==
    [][(/\ Settled
        /\ rendered.view = "forgot-password"
        /\ FieldErrors(rendered) = <<>>
        /\ Submit)
       => /\ Len(out') = 1
          /\ out'[1].op = "resetPasswordForEmail"
          /\ out'[1].to = cfg.baseUrl \o "/update-password?redirect_to=" \o currentRedirectTo]_vars

\* C24: the completion without error of an update-password submit issues exactly
\* one navigation, to the default landing path (defaultRedirectTo), and sets no
\* success message; its completion with an error issues no navigation.
C24_UpdatePasswordSuccess ==
    [][/\ SubmitComplete("updateUser", "ok")
            => /\ out' = <<NavCall("replace", cfg.defaultRedirectTo)>>
               /\ successMessage' = successMessage
       /\ SubmitComplete("updateUser", "error")
            => (out' = <<>> /\ navQ' = navQ)]_vars

\* The first value of a sequence that is set.
RECURSIVE FirstSet(_)
FirstSet(values) ==
    IF Head(values) # NULL \/ Len(values) = 1 THEN Head(values)
    ELSE FirstSet(Tail(values))

\* The redirect target by precedence: override, query parameter, default.
RedirectTarget == FirstSet(<<cfg.redirectTo, cfg.redirect_to, cfg.defaultRedirectTo>>)

\* C25: the redirect target is the first set value among the redirectTo prop, the
\* redirect_to query parameter and defaultRedirectTo: the render that sees a new
\* session outside update-password navigates to it, by one router.replace, and a
\* magic-link submit embeds it in the emailRedirectTo of its request.
C25_RedirectPrecedence ==
    [][/\ (/\ phase = "run" /\ Dirty
           /\ rendered.session # session /\ session # NULL
           /\ view # "update-password")
            => Replaces(out') = <<NavCall("replace", RedirectTarget)>>
       /\ (/\ Settled
           /\ rendered.view = "login" /\ rendered.isMagicLink
           /\ FieldErrors(rendered) = <<>>
           /\ Submit)
            => /\ Len(out') = 1
               /\ out'[1].op = "signInWithOtp"
               /\ out'[1].to = cfg.baseUrl \o "/" \o RedirectTarget]_vars

\* C25 witness: with the prop, the query parameter and a default other than "/"
\* all set, a magic-link request has just been sent with the prop's value.
C25_Witness ==
    /\ cfg.redirectTo = "/r" /\ cfg.redirect_to = "/q" /\ cfg.defaultRedirectTo = "/d"
    /\ Len(out) = 1 /\ out[1].op = "signInWithOtp"
    /\ out[1].to = "//r"

\* C26: the view is one of login, signup, forgot-password, update-password.
C26_ViewIsOneOfFour == view \in Views

\* The user's navigation intents.
NavigationIntent == GoToSignup \/ GoToLogin \/ GoToForgotPassword

\* C27 as stated: with routing enabled, the render that follows an intent that
\* changed the view to v issues exactly one router.push, to /v.
C27_IntentPushesOnce ==
    [][(cfg.isRoutingEnabled /\ Settled /\ view' # view /\ NavigationIntent)
       => ViewEffectCalls([rendered EXCEPT !.view = view'])
            = <<NavCall("push", "/" \o view')>>]_vars

\* C27 amended: with routing enabled, an intent that changes the view sets it
\* directly, to the view of the link, and issues nothing itself; the render that
\* sees a changed view v issues exactly one router.push, to /v, when v is not the
\* first segment of the router's path and none when it is; a render that sees no
\* change of view issues no push; and an intent taken while nothing is pending
\* always leaves the view different from the path's segment.
C27_IntentPushesOnMismatch ==
    [][cfg.isRoutingEnabled =>
         /\ (Settled /\ view' # view /\ NavigationIntent)
              => /\ view' \in {"signup", "login", "forgot-password"}
                 /\ out' = <<>> /\ navQ' = navQ /\ rendered' = rendered
                 /\ navQ = <<>> => view' # Segment(pathname)
         /\ (phase = "run" /\ Dirty /\ rendered.view # view)
              => Pushes(out') = IF view # Segment(pathname)
                                THEN <<NavCall("push", "/" \o view)>>
                                ELSE <<>>
         /\ (phase = "run" /\ Dirty /\ rendered.view = view)
              => Pushes(out') = <<>>]_vars

\* C27 witness: on /login the user went to signup; the render has issued the one
\* push to /signup, which is pending.
C27_Witness ==
    /\ cfg.isRoutingEnabled /\ phase = "run"
    /\ rendered.view = "signup" /\ pathname = "/login"
    /\ out = <<NavCall("push", "/signup")>>
    /\ navQ = <<"/signup">>

\* C28: a change of view in password mode, with no change of mode, keeps the
\* email and the password: the step that changes the view leaves both as they
\* are, and so does the render that sees the changed view.
C28_DraftKeptAcrossViews ==
    [][/\ (Settled /\ ~isMagicLink /\ ~isMagicLink' /\ view' # view /\ NavigationIntent)
            => (email' = email /\ password' = password)
       /\ (/\ phase = "run" /\ Dirty
           /\ rendered.view # view
           /\ ~rendered.isMagicLink /\ ~isMagicLink)
            => (email' = email /\ password' = password /\ ~isMagicLink')]_vars

\* C28 witness: mounted on the signup view, the user typed the email and the
\* password, got an error and went to login: the render of the login view has
\* just seen the view change (it cleared the error it still shows), and the email
\* and the password are still there.
C28_Witness ==
    /\ phase = "run" /\ cfg.initialView = "signup"
    /\ rendered.view = "login" /\ view = "login" /\ out = <<>>
    /\ ~rendered.isMagicLink /\ ~isMagicLink
    /\ InFlight = 0 /\ ~isLoading
    /\ rendered.error = AuthError /\ error = NULL
    /\ email = <<"a", "@", "b">> /\ password = <<"p">>

\* C29 as stated: the render that sees the mode switched, in either direction,
\* leaves both the email and the password empty.
C29_DraftClearedOnSwitch ==
    [][(phase = "run" /\ Dirty /\ rendered.isMagicLink # isMagicLink)
       => (email' = EmptyText /\ password' = EmptyText)]_vars

\* C29 amended: the render that sees the mode switched, in either direction,
\* leaves the password empty and the email as it was.
C29_PasswordClearedEmailKept ==
    [][(phase = "run" /\ Dirty /\ rendered.isMagicLink # isMagicLink)
       => (password' = EmptyText /\ email' = email)]_vars

\* C29 witness: the render that saw the switch from password mode to magic link
\* held the email a@b and the password "p"; the password is now empty and the
\* email is still a@b.
C29_Witness ==
    /\ phase = "run"
    /\ rendered.view = "login" /\ rendered.isMagicLink /\ isMagicLink
    /\ rendered.email = <<"a", "@", "b">> /\ rendered.password = <<"p">>
    /\ email = <<"a", "@", "b">> /\ password = EmptyText

\* C30: the completion of signUp without error sets successMessage to the
\* email-confirmation text when the backend asks for the email to be confirmed,
\* and does not when the backend yields a session at once.
C30_SignupConfirmationMessage ==
    [][/\ SubmitComplete("signUp", "confirm")
            => successMessage' = email_confirmation_text
       /\ SubmitComplete("signUp", "ok")
            => successMessage' # email_confirmation_text]_vars

\* C31: with every identifier of the providers prop among those its documentation
\* allows, no render of the provider buttons fails on a missing entry of the
\* table of known providers.
C31_DocumentedProvidersKnown ==
    (\A i \in DOMAIN cfg.providers : cfg.providers[i] \in DocumentedProviders)
        => phase # "crashed"

\* C32: the completion of a backend call while the view and the mode are no
\* longer those its method is dispatched from sets neither error nor
\* successMessage and leaves the email as it is.
C32_OutcomeOnlyInDispatchingView ==
    [][\A op \in BackendOps :
         (/\ Settled /\ inflight[op] > 0
          /\ view \in Views
          /\ DispatchTable(view, isMagicLink) # op)
           => \A outcome \in Outcomes :
                SubmitComplete(op, outcome)
                  => /\ error' = error
                     /\ successMessage' = successMessage
                     /\ email' = email]_vars

\* C33: while the initial session fetch is pending a stored session can only be
\* one a session-change event delivered; the resolution of the fetch, whatever
\* its result, leaves that session stored.
C33_FetchKeepsEventSession ==
    [][\A s \in Sessions \cup {NULL} :
         (Settled /\ getSession = "pending" /\ session # NULL /\ FetchResolve(s))
           => session' = session]_vars

\* C34: the resolution of the initial session fetch with no session sets the view
\* to login when the view is update-password at that moment, and leaves the view
\* as it is otherwise, whatever the view was at mount.
C34_FallbackUsesCurrentView ==
    [][(Settled /\ getSession = "pending" /\ FetchResolve(NULL))
       => view' = IF view = "update-password" THEN "login" ELSE view]_vars

\* C35: the render that sees the view leave update-password while a session is
\* present, the session being the one the last render saw, issues the navigation
\* router.replace to the redirect target.
C35_RedirectOnLeavingUpdatePassword ==
    [][(/\ phase = "run" /\ Dirty
        /\ rendered.view = "update-password" /\ view # "update-password"
        /\ rendered.session = session /\ session # NULL)
       => Replaces(out') = <<NavCall("replace", RedirectTarget)>>]_vars

\* C36: isLoading is true exactly when a backend submit call is in flight.
C36_LoadingIffInFlight == isLoading <=> (InFlight > 0)

\* C37: a render in password mode with emailPassword enabled, in the login,
\* signup or update-password view, shows the password input enabled.
C37_PasswordFieldEnabled ==
    (/\ cfg.emailPassword /\ ~rendered.isMagicLink
     /\ rendered.view \in {"login", "signup", "update-password"})
        => ~PasswordDisabled(rendered)
====
